---- MODULE Spec2Model ----
(***************************************************************************)
(* The POST /exports/download handler of                                   *)
(* demos/ecommerce_shop/backend/routes/export.ts as a state machine.       *)
(*                                                                         *)
(* Each request is one run of the async handler.  The handler suspends at  *)
(* its three awaits (db.read, the download promise, writeProduct); between *)
(* them the event loop may run any callback of any request: the write      *)
(* stream's open/write/finish/error, the HTTPS request's response/data/    *)
(* end/error, and the completion of an fs.unlink.  The file system keeps   *)
(* inode semantics: a directory entry names an inode, an open stream holds *)
(* the inode it opened, and unlink removes only the entry.                 *)
(***************************************************************************)
EXTENDS Integers, Sequences, FiniteSets, TLC

\* ------------------------------------------------------------------ bounds
NumRequests == 2
MaxBody == 2
MaxEdits == 1

Requests == 1..NumRequests

\* --------------------------------------------------------------- constants
BACKEND_URL == "BACKEND_URL"
HTTP_OK == 200
HTTP_NOT_FOUND == 404
HTTP_BAD_REQUEST == 400
HTTP_SERVER_ERROR == 500

NoId == ""
ProductIds == {NoId, "p1", "p2", "p3"}

NoDesign == [defined |-> FALSE, designId |-> 0, designExportUrl |-> <<>>]
NoProduct == [defined |-> FALSE, id |-> "", title |-> 0, canvaDesign |-> NoDesign]

\* The store as first read: p1 has a design, p2 has none, p3 is not stored.
InitialProducts ==
    << [defined |-> TRUE, id |-> "p1", title |-> 0,
        canvaDesign |-> [defined |-> TRUE, designId |-> 0,
                         designExportUrl |-> <<"remote">>]],
       [defined |-> TRUE, id |-> "p2", title |-> 0, canvaDesign |-> NoDesign] >>

\* requestBody.exportedDesignUrl: whether it parses, its scheme, and the
\* characters after the host.
Urls ==
    { [valid |-> TRUE,  protocol |-> "https:", path |-> <<"/", "x", "/", "a">>],
      [valid |-> TRUE,  protocol |-> "https:", path |-> <<"/", "b">>],
      [valid |-> TRUE,  protocol |-> "https:", path |-> <<>>],
      [valid |-> TRUE,  protocol |-> "https:", path |-> <<"/", "x", "/">>],
      [valid |-> TRUE,  protocol |-> "http:",  path |-> <<"/", "x", "/", "a">>],
      [valid |-> FALSE, protocol |-> "",       path |-> <<>>] }

FileNames == { <<"a">>, <<"b">> }
\* At most one inode per directory entry and one per open stream.
Inodes == 1..(Cardinality(FileNames) + NumRequests)
RemoteStatuses == {HTTP_OK, HTTP_NOT_FOUND}

NoResp == [status |-> 0, error |-> "", details |-> "", downloadedExportUrl |-> <<>>]
NoJob == [kind |-> "none", message |-> ""]

\* ------------------------------------------------------------ pure helpers
\* new URL(u).pathname: an empty path is normalised to "/".
Pathname(u) == IF u.path = <<>> THEN <<"/">> ELSE u.path

RECURSIVE SplitAcc(_, _, _)
SplitAcc(s, cur, acc) ==
    IF s = <<>> THEN Append(acc, cur)
    ELSE IF Head(s) = "/" THEN SplitAcc(Tail(s), <<>>, Append(acc, cur))
    ELSE SplitAcc(Tail(s), Append(cur, Head(s)), acc)

\* exportPathName.split("/")
Split(s) == SplitAcc(s, <<>>, <<>>)

\* .pop()
Pop(segs) == segs[Len(segs)]

FileNameOf(u) == Pop(Split(Pathname(u)))

\* `${BACKEND_URL}/public/exports/${fileName}`
DesignExportUrl(fileName) == <<BACKEND_URL, "/public/exports/">> \o fileName

\* data.products.find((product) => product.id === requestBody.productId)
RECURSIVE Find(_, _)
Find(products, id) ==
    IF products = <<>> THEN NoProduct
    ELSE IF Head(products).id = id THEN Head(products)
    ELSE Find(Tail(products), id)

\* The body the remote serves to request r, n bytes long.
Body(r, n) == [i \in 1..n |-> 10 * r + i]

\* fs.write of one byte at offset off (0-based); a gap reads as zero bytes.
RECURSIVE Zeros(_)
Zeros(n) == IF n <= 0 THEN <<>> ELSE <<0>> \o Zeros(n - 1)

\* Variant: the write is lost.
WriteAtLost(s, off, b) == s

WriteAt(s, off, b) ==
    IF off < Len(s) THEN [s EXCEPT ![off + 1] = b]
    ELSE s \o Zeros(off - Len(s)) \o <<b>>

\* ------------------------------------------------------------------- state
VARIABLES
    pc,           \* handler position: idle, reading, awaitDownload, updating, done, unhandled
    req,          \* requestBody: [productId, exportedDesignUrl]
    product,      \* the product found in the data read at line 24
    promise,      \* the download promise: none, pending, fulfilled, rejected
    job,          \* the reaction queued for the handler when the promise settles
    listening,    \* the finish/error listeners of lines 89-107 are registered
    fileState,    \* the write stream: none, opening, open, finished, errored
    fd,           \* the inode the stream opened ({} before the open)
    pos,          \* bytes the stream has written to its inode
    netState,     \* the HTTPS request: none, sent, threw, non200, piping, ended, aborted, errored, closed
    httpStatus,   \* response.statusCode once received, else 0
    body,         \* the remote body of a 200 response
    recv,         \* bytes of the body piped into the stream so far
    unlinks,      \* fs.unlink calls issued and not yet carried out
    resp,         \* the HTTP response sent
    nResp,        \* responses sent
    nStoreWrites, \* store updates made through writeProduct
    settleCalls,  \* calls of resolve or reject
    madeDir,      \* the request created the exports directory
    truncated,    \* the stream's open truncated a file that was there
    okAtResp,     \* at the response, the destination file held exactly the body
    dirExists,    \* the exports directory exists
    dir,          \* directory entries: file name -> {inode} or {}
    inodes,       \* inode -> content
    db,           \* the store's products
    edits         \* updates made by other writers

reqVars == <<pc, req, product, promise, job, listening, resp, nResp,
             nStoreWrites, settleCalls, madeDir, truncated, okAtResp>>
ioVars == <<fileState, fd, pos, netState, httpStatus, body, recv, unlinks>>
fsVars == <<dirExists, dir, inodes>>
vars == <<reqVars, ioVars, fsVars, db, edits>>

Init ==
    /\ pc = [r \in Requests |-> "idle"]
    /\ req = [r \in Requests |-> [productId |-> NoId,
                                  exportedDesignUrl |-> CHOOSE u \in Urls : ~u.valid]]
    /\ product = [r \in Requests |-> NoProduct]
    /\ promise = [r \in Requests |-> "none"]
    /\ job = [r \in Requests |-> NoJob]
    /\ listening = [r \in Requests |-> FALSE]
    /\ fileState = [r \in Requests |-> "none"]
    /\ fd = [r \in Requests |-> {}]
    /\ pos = [r \in Requests |-> 0]
    /\ netState = [r \in Requests |-> "none"]
    /\ httpStatus = [r \in Requests |-> 0]
    /\ body = [r \in Requests |-> <<>>]
    /\ recv = [r \in Requests |-> 0]
    /\ unlinks = [r \in Requests |-> 0]
    /\ resp = [r \in Requests |-> NoResp]
    /\ nResp = [r \in Requests |-> 0]
    /\ nStoreWrites = [r \in Requests |-> 0]
    /\ settleCalls = [r \in Requests |-> 0]
    /\ madeDir = [r \in Requests |-> FALSE]
    /\ truncated = [r \in Requests |-> FALSE]
    /\ okAtResp = [r \in Requests |-> FALSE]
    \* A fresh checkout: the exports directory does not exist yet.
    /\ dirExists = FALSE
    /\ dir = [f \in FileNames |-> {}]
    /\ inodes = [i \in Inodes |-> <<>>]
    /\ db = InitialProducts
    /\ edits = 0

\* ---------------------------------------------------------- derived values
DestName(r) == FileNameOf(req[r].exportedDesignUrl)
ExportUrl(r) == DesignExportUrl(DestName(r))

\* fs.existsSync(destinationFile) and the bytes it names
FileExists(f) == dir[f] # {}
Content(f) == inodes[CHOOSE i \in dir[f] : TRUE]

\* The request can cause no further event: its handler has ended, no unlink
\* is outstanding, its socket is closed and its stream has nothing to write.
HandlerEnded(r) == pc[r] \in {"done", "unhandled"}
IoQuiet(r) ==
    /\ unlinks[r] = 0
    /\ netState[r] \in {"none", "threw", "ended", "aborted", "errored", "closed"}
    /\ \/ fileState[r] \in {"none", "finished", "errored"}
       \/ fileState[r] = "open" /\ pos[r] = recv[r] /\ netState[r] # "ended"
Quiescent(r) == HandlerEnded(r) /\ IoQuiet(r)

\* Inodes: the lowest unused number is allocated; an inode that no directory
\* entry and no stream refers to is freed.
Referenced(i, d, fds) == (\E f \in FileNames : i \in d[f]) \/ (\E r \in Requests : i \in fds[r])
FreeInode == CHOOSE i \in Inodes :
    /\ ~Referenced(i, dir, fd)
    /\ \A j \in Inodes : ~Referenced(j, dir, fd) => i <= j
Collect(ino, d, fds) == [i \in Inodes |-> IF Referenced(i, d, fds) THEN ino[i] ELSE <<>>]

\* ------------------------------------------------------- handler fragments
\* Variant: the design check of lines 39-41 is missing.
ValidationNoDesignCheck(p, productId) ==
    IF productId = NoId THEN 0
    ELSE IF ~p.defined THEN HTTP_NOT_FOUND
    ELSE 0

\* Lines 34-42: the status that ends the request early, or 0 to go on.
ValidationStatus(p, productId) ==
    IF productId = NoId THEN 0
    ELSE IF ~p.defined THEN HTTP_NOT_FOUND
    ELSE IF ~p.canvaDesign.defined THEN HTTP_BAD_REQUEST
    ELSE 0

ValidationError(status) ==
    IF status = HTTP_NOT_FOUND THEN "Product not found" ELSE "No design found for product"

\* res.status(..).json(..): one more response leaves the handler.
Respond(r, status, error, details, url) ==
    /\ resp' = [resp EXCEPT ![r] = [status |-> status, error |-> error,
                                     details |-> details, downloadedExportUrl |-> url]]
    /\ nResp' = [nResp EXCEPT ![r] = @ + 1]
    /\ okAtResp' = [okAtResp EXCEPT ![r] =
                       /\ DestName(r) \in FileNames
                       /\ FileExists(DestName(r))
                       /\ Content(DestName(r)) = body[r]]

NoResponse == UNCHANGED <<resp, nResp, okAtResp>>

\* Variant: every call of resolve or reject queues the continuation.
SettleAgain(r, kind, message) ==
    /\ promise' = [promise EXCEPT ![r] = kind]
    /\ job' = [job EXCEPT ![r] = [kind |-> kind, message |-> message]]
    /\ settleCalls' = [settleCalls EXCEPT ![r] = @ + 1]

\* resolve() / reject(err): only the first call settles the promise and
\* queues the handler's continuation.
Settle(r, kind, message) ==
    /\ promise' = [promise EXCEPT ![r] = IF @ = "pending" THEN kind ELSE @]
    /\ job' = [job EXCEPT ![r] = IF promise[r] = "pending"
                                  THEN [kind |-> kind, message |-> message] ELSE @]
    /\ settleCalls' = [settleCalls EXCEPT ![r] = @ + 1]

NoSettle == UNCHANGED <<promise, job, settleCalls>>

\* Variant: the failure path does not unlink.
NoUnlink(r) == unlinks' = unlinks

\* fs.unlink(destinationFile, cb): queued, carried out later by UnlinkRun.
IssueUnlink(r) == unlinks' = [unlinks EXCEPT ![r] = @ + 1]

\* Variant: 'finish' does not wait for the buffered bytes.
FlushedEarly(r) == netState[r] = "ended"

\* file.end() has been called by the pipe and every byte is on disk.
Flushed(r) == netState[r] = "ended" /\ pos[r] = Len(body[r])

\* writeProduct(product): the store's record with that id is replaced.
WriteProduct(products, p) ==
    [i \in 1..Len(products) |-> IF products[i].id = p.id THEN p ELSE products[i]]

\* Lines 116-121: the product read at line 24 with the new export URL.
UpdatedProduct(r) ==
    [product[r] EXCEPT !.canvaDesign =
        [product[r].canvaDesign EXCEPT !.designExportUrl = ExportUrl(r)]]

\* ----------------------------------------------------------------- actions
\* Lines 22-24: a request arrives and the handler awaits db.read().  The
\* request takes a free place: one never used, or one whose request can cause
\* no further event.
Start(r, productId, url) ==
    /\ pc[r] = "idle" \/ Quiescent(r)
    /\ pc' = [pc EXCEPT ![r] = "reading"]
    /\ req' = [req EXCEPT ![r] = [productId |-> productId, exportedDesignUrl |-> url]]
    /\ truncated' = [truncated EXCEPT ![r] = FALSE]
    /\ product' = [product EXCEPT ![r] = NoProduct]
    /\ promise' = [promise EXCEPT ![r] = "none"]
    /\ job' = [job EXCEPT ![r] = NoJob]
    /\ listening' = [listening EXCEPT ![r] = FALSE]
    /\ resp' = [resp EXCEPT ![r] = NoResp]
    /\ nResp' = [nResp EXCEPT ![r] = 0]
    /\ nStoreWrites' = [nStoreWrites EXCEPT ![r] = 0]
    /\ settleCalls' = [settleCalls EXCEPT ![r] = 0]
    /\ madeDir' = [madeDir EXCEPT ![r] = FALSE]
    /\ okAtResp' = [okAtResp EXCEPT ![r] = FALSE]
    /\ fileState' = [fileState EXCEPT ![r] = "none"]
    /\ fd' = [fd EXCEPT ![r] = {}]
    /\ pos' = [pos EXCEPT ![r] = 0]
    /\ netState' = [netState EXCEPT ![r] = "none"]
    /\ httpStatus' = [httpStatus EXCEPT ![r] = 0]
    /\ body' = [body EXCEPT ![r] = <<>>]
    /\ recv' = [recv EXCEPT ![r] = 0]
    /\ inodes' = Collect(inodes, dir, fd')
    /\ UNCHANGED <<unlinks, dirExists, dir, db, edits>>

\* One request at a time: a request arrives when no other has been started.
StartAlone(r, productId, url) ==
    /\ \A o \in Requests \ {r} : pc[o] = "idle"
    /\ Start(r, productId, url)

\* A request arrives while another may be in flight.
StartRace(r, productId, url) ==
    /\ pc[r] = "idle"
    /\ \A o \in Requests : o < r => pc[o] # "idle"
    /\ Start(r, productId, url)

\* Line 24: db.read() rejects outside the try block.
ReadFail(r) ==
    /\ pc[r] = "reading"
    /\ pc' = [pc EXCEPT ![r] = "unhandled"]
    /\ UNCHANGED <<req, product, promise, job, listening, resp, nResp, nStoreWrites,
                   settleCalls, madeDir, truncated, okAtResp, ioVars, fsVars, db, edits>>

\* Lines 26-110: db.read() resolved; the handler runs to the download await
\* or to an early response.
ReadOk(r) ==
    LET p == Find(db, req[r].productId)
        u == req[r].exportedDesignUrl
        v == ValidationStatus(p, req[r].productId)
    IN
    /\ pc[r] = "reading"
    /\ product' = [product EXCEPT ![r] = p]
    /\ IF v # 0 THEN
            /\ Respond(r, v, ValidationError(v), "", <<>>)
            /\ pc' = [pc EXCEPT ![r] = "done"]
            /\ UNCHANGED <<promise, job, listening, settleCalls, madeDir, ioVars, fsVars>>
       ELSE IF ~u.valid THEN
            /\ Respond(r, HTTP_SERVER_ERROR, "Failed to download exported design",
                       "Invalid URL", <<>>)
            /\ pc' = [pc EXCEPT ![r] = "done"]
            /\ UNCHANGED <<promise, job, listening, settleCalls, madeDir, ioVars, fsVars>>
       ELSE IF FileNameOf(u) = <<>> THEN
            /\ Respond(r, HTTP_SERVER_ERROR, "Failed to download exported design",
                       "Could not extract filename from export URL", <<>>)
            /\ pc' = [pc EXCEPT ![r] = "done"]
            /\ UNCHANGED <<promise, job, listening, settleCalls, madeDir, ioVars, fsVars>>
       ELSE
            /\ pc' = [pc EXCEPT ![r] = "awaitDownload"]
            /\ dirExists' = TRUE
            /\ madeDir' = [madeDir EXCEPT ![r] = ~dirExists]
            /\ fileState' = [fileState EXCEPT ![r] = "opening"]
            /\ IF u.protocol = "https:" THEN
                    /\ netState' = [netState EXCEPT ![r] = "sent"]
                    /\ listening' = [listening EXCEPT ![r] = TRUE]
                    /\ promise' = [promise EXCEPT ![r] = "pending"]
                    /\ UNCHANGED <<job, settleCalls>>
               ELSE \* https.get throws inside the executor: the promise rejects
                    /\ netState' = [netState EXCEPT ![r] = "threw"]
                    /\ promise' = [promise EXCEPT ![r] = "rejected"]
                    /\ job' = [job EXCEPT ![r] =
                                  [kind |-> "rejected", message |-> "Protocol not supported"]]
                    /\ UNCHANGED <<listening, settleCalls>>
            /\ NoResponse
            /\ UNCHANGED <<fd, pos, httpStatus, body, recv, unlinks, dir, inodes>>
    /\ UNCHANGED <<req, nStoreWrites, truncated, db, edits>>

\* Line 74: the stream's open (flags "w") creates the file or truncates the
\* one the directory names.  It is queued before the DNS lookup of https.get,
\* so it is done before any callback of the request.
FileOpenOk(r) ==
    LET f == DestName(r) IN
    /\ fileState[r] = "opening"
    /\ fileState' = [fileState EXCEPT ![r] = "open"]
    /\ truncated' = [truncated EXCEPT ![r] = FileExists(f)]
    /\ IF FileExists(f)
       THEN /\ fd' = [fd EXCEPT ![r] = dir[f]]
            /\ inodes' = [i \in Inodes |-> IF i \in dir[f] THEN <<>> ELSE inodes[i]]
            /\ dir' = dir
       ELSE /\ fd' = [fd EXCEPT ![r] = {FreeInode}]
            /\ inodes' = [inodes EXCEPT ![FreeInode] = <<>>]
            /\ dir' = [dir EXCEPT ![f] = {FreeInode}]
    /\ UNCHANGED <<pc, req, product, promise, job, listening, resp, nResp,
                   nStoreWrites, settleCalls, madeDir, okAtResp, pos, netState,
                   httpStatus, body, recv, unlinks, dirExists, db, edits>>

\* Lines 102-107: the open fails and the stream emits 'error'.  When https.get
\* threw at line 77 the listeners of lines 89-107 were never registered, and
\* the event finds no handler.
FileOpenFail(r) ==
    /\ fileState[r] = "opening"
    /\ fileState' = [fileState EXCEPT ![r] = "errored"]
    /\ IF listening[r]
       THEN IssueUnlink(r) /\ Settle(r, "rejected", "open failed")
       ELSE UNCHANGED unlinks /\ NoSettle
    /\ UNCHANGED <<pc, req, product, listening, resp, nResp, nStoreWrites, madeDir,
                   truncated, okAtResp, fd, pos, netState, httpStatus, body, recv,
                   fsVars, db, edits>>

\* Lines 77-87: the response callback.  A status other than 200 unlinks and
\* rejects; 200 pipes the body into the stream.
Response(r, status, n) ==
    /\ netState[r] = "sent"
    /\ fileState[r] # "opening"
    /\ httpStatus' = [httpStatus EXCEPT ![r] = status]
    /\ IF status # HTTP_OK
       THEN /\ n = 0
            /\ netState' = [netState EXCEPT ![r] = "non200"]
            /\ IssueUnlink(r)
            /\ Settle(r, "rejected", "Failed to download")
            /\ body' = body
       ELSE /\ netState' = [netState EXCEPT ![r] = "piping"]
            /\ body' = [body EXCEPT ![r] = Body(r, n)]
            /\ UNCHANGED unlinks
            /\ NoSettle
    /\ UNCHANGED <<pc, req, product, listening, resp, nResp, nStoreWrites, madeDir,
                   truncated, okAtResp, fileState, fd, pos, recv, fsVars, db, edits>>

\* Line 86: the pipe hands the next byte of the body to the stream.
NetData(r) ==
    /\ netState[r] = "piping"
    /\ recv[r] < Len(body[r])
    /\ recv' = [recv EXCEPT ![r] = @ + 1]
    /\ UNCHANGED <<reqVars, fileState, fd, pos, netState, httpStatus, body, unlinks,
                   fsVars, db, edits>>

\* Line 86: the response ends and the pipe calls file.end().
NetEnd(r) ==
    /\ netState[r] = "piping"
    /\ recv[r] = Len(body[r])
    /\ netState' = [netState EXCEPT ![r] = "ended"]
    /\ UNCHANGED <<reqVars, fileState, fd, pos, httpStatus, body, recv, unlinks,
                   fsVars, db, edits>>

\* Line 86: the connection closes before the body is complete.  The response
\* stream is destroyed; nothing listens on it, and the request emits no
\* 'error', so the stream is never ended.
NetAbort(r) ==
    /\ netState[r] = "piping"
    /\ recv[r] < Len(body[r])
    /\ netState' = [netState EXCEPT ![r] = "aborted"]
    /\ UNCHANGED <<reqVars, fileState, fd, pos, httpStatus, body, recv, unlinks,
                   fsVars, db, edits>>

\* Lines 79-85: after a non-200 response the socket closes without an error.
NetClose(r) ==
    /\ netState[r] = "non200"
    /\ netState' = [netState EXCEPT ![r] = "closed"]
    /\ UNCHANGED <<reqVars, fileState, fd, pos, httpStatus, body, recv, unlinks,
                   fsVars, db, edits>>

\* Lines 95-100: the request emits 'error' (before a response, after a
\* non-200 response, or while the body is piped).
RequestError(r) ==
    /\ netState[r] \in {"sent", "non200", "piping"}
    /\ fileState[r] # "opening"
    /\ netState' = [netState EXCEPT ![r] = "errored"]
    /\ IssueUnlink(r)
    /\ Settle(r, "rejected", "socket error")
    /\ UNCHANGED <<pc, req, product, listening, resp, nResp, nStoreWrites, madeDir,
                   truncated, okAtResp, fileState, fd, pos, httpStatus, body, recv,
                   fsVars, db, edits>>

\* Line 86: the stream writes its next buffered byte at its own offset.
FileWrite(r) ==
    /\ fileState[r] = "open"
    /\ pos[r] < recv[r]
    /\ inodes' = [i \in Inodes |-> IF i \in fd[r]
                                   THEN WriteAt(inodes[i], pos[r], body[r][pos[r] + 1])
                                   ELSE inodes[i]]
    /\ pos' = [pos EXCEPT ![r] = @ + 1]
    /\ UNCHANGED <<reqVars, fileState, fd, netState, httpStatus, body, recv, unlinks,
                   dirExists, dir, db, edits>>

\* Lines 102-107: a write fails and the stream emits 'error'.
FileWriteError(r) ==
    /\ fileState[r] = "open"
    /\ pos[r] < recv[r]
    /\ fileState' = [fileState EXCEPT ![r] = "errored"]
    /\ IssueUnlink(r)
    /\ Settle(r, "rejected", "write failed")
    /\ UNCHANGED <<pc, req, product, listening, resp, nResp, nStoreWrites, madeDir,
                   truncated, okAtResp, fd, pos, netState, httpStatus, body, recv,
                   fsVars, db, edits>>

\* Lines 89-93: the stream emits 'finish'.
FileFinish(r) ==
    /\ fileState[r] = "open"
    /\ Flushed(r)
    /\ fileState' = [fileState EXCEPT ![r] = "finished"]
    /\ Settle(r, "fulfilled", "")
    /\ UNCHANGED <<pc, req, product, listening, resp, nResp, nStoreWrites, madeDir,
                   truncated, okAtResp, fd, pos, netState, httpStatus, body, recv, unlinks,
                   fsVars, db, edits>>

\* Lines 80, 96, 103: a queued fs.unlink removes the directory entry.
UnlinkRun(r) ==
    /\ unlinks[r] > 0
    /\ unlinks' = [unlinks EXCEPT ![r] = @ - 1]
    /\ dir' = [dir EXCEPT ![DestName(r)] = {}]
    /\ inodes' = Collect(inodes, dir', fd)
    /\ UNCHANGED <<reqVars, fileState, fd, pos, netState, httpStatus, body, recv,
                   dirExists, db, edits>>

\* Lines 112-135: the handler resumes after the download promise settled.
AfterDownload(r) ==
    /\ job[r].kind # "none"
    /\ job' = [job EXCEPT ![r] = NoJob]
    /\ IF job[r].kind = "rejected" THEN
            /\ Respond(r, HTTP_SERVER_ERROR, "Failed to download exported design",
                       job[r].message, <<>>)
            /\ pc' = [pc EXCEPT ![r] = "done"]
       ELSE IF req[r].productId # NoId /\ product[r].defined THEN
            /\ pc' = [pc EXCEPT ![r] = "updating"]
            /\ NoResponse
       ELSE
            /\ Respond(r, HTTP_OK, "", "", ExportUrl(r))
            /\ pc' = [pc EXCEPT ![r] = "done"]
    /\ UNCHANGED <<req, product, promise, listening, nStoreWrites, settleCalls,
                   madeDir, truncated, ioVars, fsVars, db, edits>>

\* Lines 115-127: writeProduct resolved; the handler answers 200.
UpdateOk(r) ==
    /\ pc[r] = "updating"
    /\ db' = WriteProduct(db, UpdatedProduct(r))
    /\ nStoreWrites' = [nStoreWrites EXCEPT ![r] = @ + 1]
    /\ Respond(r, HTTP_OK, "", "", ExportUrl(r))
    /\ pc' = [pc EXCEPT ![r] = "done"]
    /\ UNCHANGED <<req, product, promise, job, listening, settleCalls, madeDir,
                   truncated, ioVars, fsVars, edits>>

\* Lines 115-135: writeProduct rejected; the catch block answers 500.
UpdateFail(r) ==
    /\ pc[r] = "updating"
    /\ Respond(r, HTTP_SERVER_ERROR, "Failed to download exported design",
               "store write failed", <<>>)
    /\ pc' = [pc EXCEPT ![r] = "done"]
    /\ UNCHANGED <<req, product, promise, job, listening, nStoreWrites, settleCalls,
                   madeDir, truncated, ioVars, fsVars, db, edits>>

\* Another writer of the store (another route of the backend) updates
\* product p1: its title and its design's id.
ExternalWrite ==
    /\ edits < MaxEdits
    /\ edits' = edits + 1
    /\ db' = [i \in 1..Len(db) |->
                 IF db[i].id = "p1"
                 THEN [db[i] EXCEPT !.title = @ + 1,
                                    !.canvaDesign = [db[i].canvaDesign EXCEPT !.designId = @ + 1]]
                 ELSE db[i]]
    /\ UNCHANGED <<reqVars, ioVars, fsVars>>

\* The callbacks and continuations of the requests in flight.
Step(r) ==
    \/ ReadFail(r)
    \/ ReadOk(r)
    \/ FileOpenOk(r)
    \/ FileOpenFail(r)
    \/ \E status \in RemoteStatuses, n \in 0..MaxBody : Response(r, status, n)
    \/ NetData(r)
    \/ NetEnd(r)
    \/ NetAbort(r)
    \/ NetClose(r)
    \/ RequestError(r)
    \/ FileWrite(r)
    \/ FileWriteError(r)
    \/ FileFinish(r)
    \/ UnlinkRun(r)
    \/ AfterDownload(r)
    \/ UpdateOk(r)
    \/ UpdateFail(r)

\* Requests one at a time (the unit of reasoning): every product case, every
\* kind of URL, one destination file name.
SoloUrls == {u \in Urls : FileNameOf(u) # <<"b">>}

Next ==
    \/ \E productId \in ProductIds, url \in SoloUrls : StartAlone(1, productId, url)
    \/ Step(1)
    \/ ExternalWrite

Spec == Init /\ [][Next]_vars

\* Downloads without a product that may overlap.
RaceUrls == {u \in Urls : u.valid /\ u.protocol = "https:" /\ FileNameOf(u) # <<>>}

StepRace(r) ==
    \/ ReadOk(r)
    \/ FileOpenOk(r)
    \/ FileOpenFail(r)
    \/ \E status \in RemoteStatuses, n \in 0..MaxBody : Response(r, status, n)
    \/ NetData(r)
    \/ NetEnd(r)
    \/ NetAbort(r)
    \/ NetClose(r)
    \/ RequestError(r)
    \/ FileWrite(r)
    \/ FileWriteError(r)
    \/ FileFinish(r)
    \/ UnlinkRun(r)
    \/ AfterDownload(r)

NextRace ==
    \/ \E r \in Requests, url \in RaceUrls : StartRace(r, NoId, url)
    \/ \E r \in Requests : StepRace(r)

SpecRace == Init /\ [][NextRace]_vars

\* ------------------------------------------------------------------ claims
IsError(r) == resp[r].status \in {HTTP_NOT_FOUND, HTTP_BAD_REQUEST, HTTP_SERVER_ERROR}

\* C1: a 200 response is sent only after the stream emitted 'finish' with
\* every byte of the remote body written; at that moment (one request in
\* flight) the destination file exists and holds exactly the body, and the
\* returned URL is BACKEND_URL + "/public/exports/" + the derived file name.
C1_SuccessAfterFinish ==
    \A r \in Requests :
        resp[r].status = HTTP_OK =>
            /\ fileState[r] = "finished"
            /\ httpStatus[r] = HTTP_OK
            /\ pos[r] = Len(body[r])
            /\ okAtResp[r]
            /\ FileExists(DestName(r))
            /\ Content(DestName(r)) = body[r]
            /\ resp[r].downloadedExportUrl
                  = <<BACKEND_URL, "/public/exports/">> \o DestName(r)

C1_Witness ==
    \E r \in Requests :
        /\ resp[r].status = HTTP_OK
        /\ Len(body[r]) = MaxBody
        /\ truncated[r]
        /\ Content(DestName(r)) = body[r]

\* C2: on a failure path of the download (non-200 status, request 'error',
\* write-stream 'error') the error response is never sent while the file
\* the request's stream opened is still in the destination directory.
C2_NoErrorResponseWhileFileExists ==
    \A r \in Requests :
        (/\ resp[r].status = HTTP_SERVER_ERROR
         /\ fd[r] # {}
         /\ \/ httpStatus[r] \notin {0, HTTP_OK}
            \/ netState[r] = "errored"
            \/ fileState[r] = "errored")
        => dir[DestName(r)] # fd[r]

\* The download can make no further progress while the handler still awaits it.
Stuck(r) ==
    /\ pc[r] = "awaitDownload"
    /\ promise[r] = "pending"
    /\ netState[r] = "aborted"
    /\ fileState[r] = "open"
    /\ pos[r] = recv[r]

\* C3: every request whose handler has ended, or whose download can go no
\* further, has been answered (200, or one of the structured errors),
\* including after a failed store read and after a transport failure while
\* the body is piped.
C3_EveryRequestAnswered ==
    \A r \in Requests :
        (HandlerEnded(r) \/ Stuck(r)) => nResp[r] = 1 /\ resp[r].status # 0

\* No remote GET, no directory or file created or truncated, no store write.
NoEffects(r) ==
    /\ netState[r] = "none"
    /\ fileState[r] = "none"
    /\ fd[r] = {}
    /\ ~madeDir[r]
    /\ ~truncated[r]
    /\ unlinks[r] = 0
    /\ nStoreWrites[r] = 0

\* C4: once the store is read, a supplied productId absent from the store is
\* answered 404, one whose product has no design 400, and a URL whose last
\* path segment is empty 500 with the filename-extraction message; in all
\* three cases before any network, file-system or store effect.
C4_ValidationBeforeEffects ==
    \A r \in Requests :
        LET id == req[r].productId
            u == req[r].exportedDesignUrl
            stored == \E i \in 1..Len(db) : db[i].id = id
            designed == \E i \in 1..Len(db) : db[i].id = id /\ db[i].canvaDesign.defined
            lastSegment == Pop(Split(Pathname(u)))
        IN  pc[r] \notin {"idle", "reading", "unhandled"} =>
              /\ (id # NoId /\ ~stored) =>
                    /\ pc[r] = "done" /\ NoEffects(r)
                    /\ resp[r].status = HTTP_NOT_FOUND
              /\ (id # NoId /\ stored /\ ~designed) =>
                    /\ pc[r] = "done" /\ NoEffects(r)
                    /\ resp[r].status = HTTP_BAD_REQUEST
              /\ ((id = NoId \/ designed) /\ u.valid /\ lastSegment = <<>>) =>
                    /\ pc[r] = "done" /\ NoEffects(r)
                    /\ resp[r].status = HTTP_SERVER_ERROR
                    /\ resp[r].details = "Could not extract filename from export URL"

C4_Witness ==
    \E r \in Requests :
        /\ req[r].productId = "p1"
        /\ req[r].exportedDesignUrl.path = <<>>
        /\ req[r].exportedDesignUrl.valid
        /\ resp[r].details = "Could not extract filename from export URL"
        /\ ~dirExists

\* C5: after a non-200 status the response is 500 and, once the request's
\* unlink has run, no file with the derived name exists, also when a file of
\* that name was there before the request.
C5_Non200LeavesNoFile ==
    \A r \in Requests :
        httpStatus[r] \notin {0, HTTP_OK} =>
            /\ resp[r].status \in {0, HTTP_SERVER_ERROR}
            /\ pc[r] = "done" => resp[r].status = HTTP_SERVER_ERROR
            /\ unlinks[r] = 0 => ~FileExists(DestName(r))

C5_Witness ==
    \E r \in Requests :
        /\ httpStatus[r] = HTTP_NOT_FOUND
        /\ truncated[r]
        /\ unlinks[r] = 0
        /\ resp[r].status = HTTP_SERVER_ERROR
        /\ ~FileExists(DestName(r))

\* C6: the destination file is created, truncated or written only after the
\* remote response with status 200 was received.
C6_NoWriteBefore200 ==
    \A r \in Requests :
        (fd[r] # {} \/ truncated[r]) => httpStatus[r] = HTTP_OK

\* C7: the store update of a successful download sets the product's
\* canvaDesign.designExportUrl to the new URL and leaves every other field of
\* the product, and every other product, as the store held them immediately
\* before the update.
C7_UpdatePreservesOtherFields ==
    [][\A r \in Requests :
          (pc[r] = "updating" /\ pc'[r] = "done" /\ resp'[r].status = HTTP_OK) =>
              db' = [i \in 1..Len(db) |->
                        IF db[i].id = req[r].productId
                        THEN [db[i] EXCEPT !.canvaDesign =
                                 [db[i].canvaDesign EXCEPT
                                     !.designExportUrl = resp'[r].downloadedExportUrl]]
                        ELSE db[i]]]_vars

\* C8: when the handler has answered with an error status and its cleanup is
\* over, the request has not written the store and no file it created or
\* wrote is left at the destination.
C8_ErrorLeavesNoSideEffect ==
    \A r \in Requests :
        (IsError(r) /\ Quiescent(r)) =>
            /\ nStoreWrites[r] = 0
            /\ ~(fd[r] # {} /\ dir[DestName(r)] = fd[r])

\* C9: a 200 response sent while the destination file is absent or differs
\* from the body that request downloaded happens only when another request
\* of the same derived file name has started its own stream on the file; and
\* such a response is reachable (C9_Witness).
C9_MismatchOnlyByRace ==
    \A r \in Requests :
        (resp[r].status = HTTP_OK /\ ~okAtResp[r]) =>
            \E q \in Requests \ {r} :
                /\ fileState[q] \notin {"none", "opening"}
                /\ DestName(q) = DestName(r)

C9_Witness ==
    \E r \in Requests : resp[r].status = HTTP_OK /\ ~okAtResp[r]

\* C10: a request sends at most one response and writes the store at most
\* once, however many times and in whatever order the download callbacks
\* call resolve or reject; the continuation is queued only while the handler
\* awaits the download.
C10_AtMostOneResponse ==
    \A r \in Requests :
        /\ nResp[r] <= 1
        /\ nStoreWrites[r] <= 1
        /\ pc[r] = "done" => nResp[r] = 1
        /\ job[r].kind # "none" => pc[r] = "awaitDownload"

C10_Witness ==
    \E r \in Requests :
        /\ settleCalls[r] >= 3
        /\ pc[r] = "done"
        /\ nResp[r] = 1

====
